---- MODULE Spec2Model ----
(***************************************************************************)
(* Document-RAG-System: the indexing pipeline (index_documents.py) and the *)
(* search pipeline (search_documents.py) over the document_chunks table.   *)
(*                                                                         *)
(* A text is a sequence of one-character strings.  A vector is a sequence  *)
(* of integers.  Cosine scores are kept as exact fractions and compared by *)
(* cross-multiplication; floating-point rounding is not modelled.  The     *)
(* created_at column (a wall-clock default) is not modelled.               *)
(***************************************************************************)
EXTENDS Integers, Sequences, FiniteSets, TLC

VARIABLES
    store,               \* document_chunks: the committed rows, in scan order
    seq,                 \* document_chunks_id_seq: the next id
    pc,                  \* position of process_document
    conn,                \* the indexing run's connection: none | open | closed
    opens,               \* connections opened by the indexing run
    err,                 \* the error that ended the indexing run, or "none"
    file,                \* file_path argument
    split_strategy,      \* split_strategy argument
    chunk_size,          \* chunk_size argument
    overlap,             \* overlap argument
    sentences_per_chunk, \* sentences_per_chunk argument
    text,                \* extracted text
    start,               \* fixed_size_chunks: start
    chunks,              \* chunks produced so far
    chunks_data,         \* rows prepared for insert_chunks
    embed_calls,         \* embedding calls made by the indexing run
    store_before,        \* the rows committed when the indexing run started
    s_pc,                \* position of search_documents
    s_conn,              \* the search run's connection: none | open | closed
    s_opens,             \* connections opened by the search run
    s_err,               \* the error that ended the search run, or "none"
    query_embedding,     \* query vector
    top_k,               \* top_k argument
    results              \* value returned by search_similar_chunks

indexVars  == <<pc, conn, opens, err, file, split_strategy, chunk_size, overlap,
                sentences_per_chunk, text, start, chunks, chunks_data,
                embed_calls, store_before>>
storeVars  == <<store, seq>>
searchVars == <<s_pc, s_conn, s_opens, s_err, query_embedding, top_k, results>>
vars       == <<storeVars, indexVars, searchVars>>

----------------------------------------------------------------------------
(* Bounds of the model *)

MaxTextLen   == 5    \* texts given to fixed_size_chunks directly
MaxSize      == 4    \* chunk_size and overlap given to it directly
MaxProseLen  == 5    \* texts given to sentence_based_chunks directly
MaxParaLen   == 6    \* texts given to paragraph_based_chunks directly
MaxChunkSize == 2    \* chunk_size of an indexing run
MaxOverlap   == 2    \* overlap of an indexing run
MaxSentences == 2    \* sentences_per_chunk
MaxRows      == 3    \* rows of the store a search reads
MaxTopK      == 2    \* |top_k|

\* The fixed-size loop is cut after this many chunks: with chunk_size >
\* overlap >= 0 it never produces more than Len(text) chunks.
IterCap == MaxTextLen + 2

----------------------------------------------------------------------------
(* Python built-ins used by the code *)

Min(a, b) == IF a < b THEN a ELSE b
Max(a, b) == IF a > b THEN a ELSE b

\* s[a:b] on a str or list, with Python's handling of negative and
\* out-of-range indices.
PySlice(s, a, b) ==
    LET n  == Len(s)
        lo == IF a < 0 THEN Max(n + a, 0) ELSE Min(a, n)
        hi == IF b < 0 THEN Max(n + b, 0) ELSE Min(b, n)
    IN  IF lo >= hi THEN <<>> ELSE SubSeq(s, lo + 1, hi)

Whitespace == {" ", "\n", "\t"}

RECURSIVE LStrip(_)
LStrip(s) ==
    IF s # <<>> /\ Head(s) \in Whitespace THEN LStrip(Tail(s)) ELSE s

RECURSIVE RStrip(_)
RStrip(s) ==
    IF s # <<>> /\ s[Len(s)] \in Whitespace
    THEN RStrip(SubSeq(s, 1, Len(s) - 1))
    ELSE s

\* str.strip()
Strip(s) == RStrip(LStrip(s))

\* str.replace(old, new) for one-character old and new
Replace(s, old, new) == [i \in 1..Len(s) |-> IF s[i] = old THEN new ELSE s[i]]

MatchAt(s, sep, i) ==
    /\ i + Len(sep) - 1 <= Len(s)
    /\ \A j \in 1..Len(sep) : s[i + j - 1] = sep[j]

RECURSIVE SplitFrom(_, _, _, _)
SplitFrom(s, sep, i, cur) ==
    IF i > Len(s) THEN <<cur>>
    ELSE IF MatchAt(s, sep, i)
         THEN <<cur>> \o SplitFrom(s, sep, i + Len(sep), <<>>)
         ELSE SplitFrom(s, sep, i + 1, Append(cur, s[i]))

\* str.split(sep): leftmost, non-overlapping occurrences of a non-empty sep
Split(s, sep) == SplitFrom(s, sep, 1, <<>>)

RECURSIVE Join(_, _)
\* sep.join(parts)
Join(sep, parts) ==
    IF parts = <<>> THEN <<>>
    ELSE IF Len(parts) = 1 THEN parts[1]
    ELSE parts[1] \o sep \o Join(sep, Tail(parts))

\* [s.strip() for s in parts if s.strip()]
StripNonEmpty(parts) ==
    LET F[i \in 0..Len(parts)] ==
            IF i = 0 THEN <<>>
            ELSE IF Strip(parts[i]) # <<>>
                 THEN Append(F[i - 1], Strip(parts[i]))
                 ELSE F[i - 1]
    IN  F[Len(parts)]

----------------------------------------------------------------------------
(* TextChunker *)

\* fixed_size_chunks, line 53: end = start + chunk_size
FixedEnd(st, size) == st + size

\* Mutant of FixedAdvance: the next chunk starts where this one ended
FixedAdvanceNoOverlap(end, ov) == end

\* fixed_size_chunks, line 56: start = end - overlap
FixedAdvance(end, ov) == end - ov

\* Mutant of FixedBreak: the loop goes on when the slice ends exactly at the
\* end of the text
FixedBreakStrict(end, t) == end > Len(t)

\* fixed_size_chunks, line 57: if end >= len(text): break
FixedBreak(end, t) == end >= Len(t)

\* Mutant of FixedChunk: the slice includes the character at end
FixedChunkInclusive(t, st, end) == PySlice(t, st, end + 1)

\* fixed_size_chunks, line 54: chunk = text[start:end]
FixedChunk(t, st, end) == PySlice(t, st, end)

RECURSIVE Batches(_, _, _)
\* for i in range(0, len(sentences), k): '. '.join(sentences[i:i+k]) + '.'
Batches(sentences, i, k) ==
    IF i >= Len(sentences) THEN <<>>
    ELSE LET chunk == Join(<<".", " ">>, PySlice(sentences, i, i + k))
         IN  (IF chunk # <<>> THEN <<chunk \o <<".">>>> ELSE <<>>)
             \o Batches(sentences, i + k, k)

\* Mutant of sentence_based_chunks: '!' is not taken as a terminator
sentence_based_chunks_no_bang(t, k) ==
    LET sentences == StripNonEmpty(Split(Replace(t, "?", "."), <<".">>))
    IN  IF k < 0 THEN <<>> ELSE Batches(sentences, 0, k)

\* sentence_based_chunks for sentences_per_chunk # 0 (range() rejects a zero
\* step; a negative step gives an empty range)
sentence_based_chunks(t, k) ==
    LET sentences == StripNonEmpty(
                       Split(Replace(Replace(t, "!", "."), "?", "."), <<".">>))
    IN  IF k < 0 THEN <<>> ELSE Batches(sentences, 0, k)

\* Mutant of paragraph_based_chunks: every newline separates paragraphs
paragraph_based_chunks_single(t) == StripNonEmpty(Split(t, <<"\n">>))

\* paragraph_based_chunks, lines 88-90
paragraph_based_chunks(t) == StripNonEmpty(Split(t, <<"\n", "\n">>))

----------------------------------------------------------------------------
(* DocumentProcessor *)

\* file_ext = os.path.splitext(file_path)[1].lower()
Lower(e) ==
    CASE e = ".PDF"  -> ".pdf"
      [] e = ".DOCX" -> ".docx"
      [] e = ".DOC"  -> ".doc"
      [] e = ".TXT"  -> ".txt"
      [] OTHER       -> e

\* Mutant of extract_text: every file goes to a reader, whatever its extension
extract_text_any(f) ==
    IF f.readable
    THEN [ok |-> TRUE, text |-> Strip(f.content), err |-> "none"]
    ELSE [ok |-> FALSE, text |-> <<>>, err |-> "ExtractionError"]

\* extract_text: the text, stripped, or the ValueError it raises.  A file is
\* [dir, stem, ext, readable, content]; content is what the reader library
\* returns when the file is readable.
extract_text(f) ==
    IF Lower(f.ext) \in {".pdf", ".docx", ".doc"}
    THEN IF f.readable
         THEN [ok |-> TRUE, text |-> Strip(f.content), err |-> "none"]
         ELSE [ok |-> FALSE, text |-> <<>>, err |-> "ExtractionError"]
    ELSE [ok |-> FALSE, text |-> <<>>, err |-> "UnsupportedFormat"]

\* os.path.basename(file_path)
Basename(f) == [stem |-> f.stem, ext |-> f.ext]

----------------------------------------------------------------------------
(* Inputs of the indexing pipeline *)

Files ==
    { [dir |-> "docs", stem |-> "a", ext |-> ".pdf", readable |-> TRUE,
       content |-> <<"a", "b", "c", "\n">>],
      [dir |-> "docs", stem |-> "b", ext |-> ".DOCX", readable |-> TRUE,
       content |-> <<"a", "?", " ", "b">>],
      [dir |-> ".", stem |-> "c", ext |-> ".doc", readable |-> TRUE,
       content |-> <<"a", "\n", "\n", "b">>],
      [dir |-> ".", stem |-> "e", ext |-> ".pdf", readable |-> TRUE,
       content |-> <<"\n">>],
      [dir |-> ".", stem |-> "x", ext |-> ".pdf", readable |-> FALSE,
       content |-> <<>>],
      [dir |-> ".", stem |-> "t", ext |-> ".txt", readable |-> TRUE,
       content |-> <<"a", "b">>] }

\* Defaults of process_document's parameters
DefaultChunkSize == 1000
DefaultOverlap == 200
DefaultSentences == 5

\* The arguments of a run; a parameter its strategy does not read keeps its
\* default
Requests ==
    {[strategy |-> "fixed_size", chunk_size |-> s, overlap |-> o,
      sentences_per_chunk |-> DefaultSentences] :
          s \in 1..MaxChunkSize, o \in 0..MaxOverlap}
    \cup {[strategy |-> "sentence", chunk_size |-> DefaultChunkSize,
           overlap |-> DefaultOverlap, sentences_per_chunk |-> k] :
          k \in 0..MaxSentences}
    \cup {[strategy |-> n, chunk_size |-> DefaultChunkSize,
           overlap |-> DefaultOverlap,
           sentences_per_chunk |-> DefaultSentences] :
          n \in {"paragraph", "semantic"}}

\* Vectors the embedding service returns for a chunk (one dimensionality)
EmbedVectors == {<<1, 0>>, <<0, 1>>}

NoFile == [dir |-> ".", stem |-> "", ext |-> "", readable |-> FALSE,
           content |-> <<>>]

----------------------------------------------------------------------------
(* process_document *)

\* lines 235-238: a run starts and extracts the text
Extract(f, req) ==
    /\ pc \in {"idle", "done", "error"}
    /\ file' = f
    /\ split_strategy' = req.strategy
    /\ chunk_size' = req.chunk_size
    /\ overlap' = req.overlap
    /\ sentences_per_chunk' = req.sentences_per_chunk
    /\ store_before' = store
    /\ embed_calls' = 0
    /\ opens' = 0
    /\ conn' = "none"
    /\ start' = 0
    /\ chunks' = <<>>
    /\ chunks_data' = <<>>
    /\ LET r == extract_text(f)
       IN  /\ text' = r.text
           /\ err' = r.err
           /\ pc' = IF r.ok THEN "extracted" ELSE "error"
    /\ UNCHANGED <<storeVars, searchVars>>

\* lines 240-248: the strategy is chosen; sentence and paragraph chunking
\* run to completion, fixed_size enters its loop (lines 49-50)
ChunkDispatch ==
    /\ pc = "extracted"
    /\ start' = 0
    /\ IF split_strategy = "fixed_size"
       THEN /\ chunks' = <<>>
            /\ pc' = "chunking"
            /\ err' = err
       ELSE IF split_strategy = "sentence"
       THEN IF sentences_per_chunk = 0
            THEN /\ chunks' = <<>>
                 /\ pc' = "error"
                 /\ err' = "ValueError"
            ELSE /\ chunks' = sentence_based_chunks(text, sentences_per_chunk)
                 /\ pc' = "chunked"
                 /\ err' = err
       ELSE IF split_strategy = "paragraph"
       THEN /\ chunks' = paragraph_based_chunks(text)
            /\ pc' = "chunked"
            /\ err' = err
       ELSE /\ chunks' = <<>>
            /\ pc' = "error"
            /\ err' = "InvalidStrategy"
    /\ UNCHANGED <<conn, opens, file, split_strategy, chunk_size, overlap,
                   sentences_per_chunk, text, chunks_data, embed_calls,
                   store_before, storeVars, searchVars>>

\* lines 52-58: one evaluation of the while test and, when it holds, one
\* pass through the loop body
FixedSizeIter ==
    /\ pc = "chunking"
    /\ Len(chunks) < IterCap
    /\ IF start < Len(text)
       THEN LET end == FixedEnd(start, chunk_size)
            IN  /\ chunks' = Append(chunks, FixedChunk(text, start, end))
                /\ start' = FixedAdvance(end, overlap)
                /\ pc' = IF FixedBreak(end, text) THEN "chunked" ELSE "chunking"
       ELSE /\ pc' = "chunked"
            /\ UNCHANGED <<chunks, start>>
    /\ UNCHANGED <<conn, opens, err, file, split_strategy, chunk_size, overlap,
                   sentences_per_chunk, text, chunks_data, embed_calls,
                   store_before, storeVars, searchVars>>

\* line 256: DatabaseManager(POSTGRES_URL) connects and ensures the table
OpenStore ==
    /\ pc = "chunked"
    /\ conn' = "open"
    /\ opens' = opens + 1
    /\ pc' = "opened"
    /\ UNCHANGED <<err, file, split_strategy, chunk_size, overlap,
                   sentences_per_chunk, text, start, chunks, chunks_data,
                   embed_calls, store_before, storeVars, searchVars>>

\* line 256 raising: psycopg2.connect fails (no connection), or
\* ensure_table_exists fails (the connection stays open)
OpenStoreFails ==
    /\ pc = "chunked"
    /\ \E connected \in BOOLEAN :
          /\ conn' = IF connected THEN "open" ELSE "none"
          /\ opens' = IF connected THEN opens + 1 ELSE opens
    /\ pc' = "error"
    /\ err' = "StoreError"
    /\ UNCHANGED <<file, split_strategy, chunk_size, overlap,
                   sentences_per_chunk, text, start, chunks, chunks_data,
                   embed_calls, store_before, storeVars, searchVars>>

\* Mutant of delete_all_chunks: the rows stay
delete_all_chunks_keeps == store

\* delete_all_chunks, lines 178-183: DELETE, restart the sequence, commit
delete_all_chunks == <<>>

\* line 259
ClearStore ==
    /\ pc = "opened"
    /\ store' = delete_all_chunks
    /\ seq' = 1
    /\ pc' = "embedding"
    /\ UNCHANGED <<conn, opens, err, file, split_strategy, chunk_size, overlap,
                   sentences_per_chunk, text, start, chunks, chunks_data,
                   embed_calls, store_before, searchVars>>

\* line 259 raising: nothing is committed
ClearStoreFails ==
    /\ pc = "opened"
    /\ pc' = "error"
    /\ err' = "StoreError"
    /\ UNCHANGED <<conn, opens, file, split_strategy, chunk_size, overlap,
                   sentences_per_chunk, text, start, chunks, chunks_data,
                   embed_calls, store_before, storeVars, searchVars>>

\* lines 265-270: the dict appended for a chunk
ChunkData(chunk, embedding) ==
    [chunk_text     |-> chunk,
     embedding      |-> embedding,
     filename       |-> Basename(file),
     split_strategy |-> split_strategy]

\* lines 262-270: the next chunk is embedded
EmbedChunk ==
    /\ pc = "embedding"
    /\ Len(chunks_data) < Len(chunks)
    /\ embed_calls' = embed_calls + 1
    /\ \E e \in EmbedVectors :
          chunks_data' =
              Append(chunks_data, ChunkData(chunks[Len(chunks_data) + 1], e))
    /\ UNCHANGED <<pc, conn, opens, err, file, split_strategy, chunk_size,
                   overlap, sentences_per_chunk, text, start, chunks,
                   store_before, storeVars, searchVars>>

\* line 264 raising: generate_embedding's ValueError leaves process_document
EmbedChunkFails ==
    /\ pc = "embedding"
    /\ Len(chunks_data) < Len(chunks)
    /\ embed_calls' = embed_calls + 1
    /\ pc' = "error"
    /\ err' = "EmbeddingError"
    /\ UNCHANGED <<conn, opens, file, split_strategy, chunk_size, overlap,
                   sentences_per_chunk, text, start, chunks, chunks_data,
                   store_before, storeVars, searchVars>>

\* insert_chunks, lines 192-210: one INSERT of all rows, ids drawn from the
\* sequence in order
insert_chunks(rows, data, next) ==
    rows \o [i \in 1..Len(data) |->
                [id             |-> next + i - 1,
                 chunk_text     |-> data[i].chunk_text,
                 embedding      |-> data[i].embedding,
                 filename       |-> data[i].filename,
                 split_strategy |-> data[i].split_strategy]]

\* lines 275-277: bulk insert, then close
InsertChunks ==
    /\ pc = "embedding"
    /\ Len(chunks_data) = Len(chunks)
    /\ store' = insert_chunks(store, chunks_data, seq)
    /\ seq' = seq + Len(chunks_data)
    /\ conn' = "closed"
    /\ pc' = "done"
    /\ UNCHANGED <<opens, err, file, split_strategy, chunk_size, overlap,
                   sentences_per_chunk, text, start, chunks, chunks_data,
                   embed_calls, store_before, searchVars>>

\* line 276 raising: the INSERT is not committed
InsertChunksFails ==
    /\ pc = "embedding"
    /\ Len(chunks_data) = Len(chunks)
    /\ pc' = "error"
    /\ err' = "StoreError"
    /\ UNCHANGED <<conn, opens, file, split_strategy, chunk_size, overlap,
                   sentences_per_chunk, text, start, chunks, chunks_data,
                   embed_calls, store_before, storeVars, searchVars>>

----------------------------------------------------------------------------
(* Specification of the indexing pipeline *)

SearchIdle ==
    /\ s_pc = "idle"
    /\ s_conn = "none"
    /\ s_opens = 0
    /\ s_err = "none"
    /\ query_embedding = <<>>
    /\ top_k = 5
    /\ results = <<>>

IndexIdle ==
    /\ conn = "none"
    /\ opens = 0
    /\ err = "none"
    /\ file = NoFile
    /\ start = 0
    /\ chunks = <<>>
    /\ chunks_data = <<>>
    /\ embed_calls = 0
    /\ store_before = <<>>

Init ==
    /\ store = <<>>
    /\ seq = 1
    /\ pc = "idle"
    /\ split_strategy = "fixed_size"
    /\ chunk_size = DefaultChunkSize
    /\ overlap = DefaultOverlap
    /\ sentences_per_chunk = DefaultSentences
    /\ text = <<>>
    /\ IndexIdle
    /\ SearchIdle

Next ==
    \/ \E f \in Files, req \in Requests : Extract(f, req)
    \/ ChunkDispatch
    \/ FixedSizeIter
    \/ OpenStore
    \/ OpenStoreFails
    \/ ClearStore
    \/ ClearStoreFails
    \/ EmbedChunk
    \/ EmbedChunkFails
    \/ InsertChunks
    \/ InsertChunksFails

Spec == Init /\ [][Next]_vars

----------------------------------------------------------------------------
(* TextChunker called directly, as the tests do: the chunking stage of     *)
(* process_document on any text                                            *)

SeqsUpTo(S, n) == UNION {[1..k -> S] : k \in 0..n}

FixedAlphabet == {"a", "b"}
ProseAlphabet == {"a", ".", "!", "?", " "}
ParagraphAlphabet == {"a", " ", "\n"}

\* The 2600-character document of the end-to-end scenario
ScenarioText == [i \in 1..2600 |-> IF i % 2 = 0 THEN "a" ELSE "b"]

ChunkCases ==
    {[text |-> t, strategy |-> "fixed_size", chunk_size |-> s, overlap |-> o,
      sentences_per_chunk |-> DefaultSentences] :
          t \in SeqsUpTo(FixedAlphabet, MaxTextLen),
          s \in 1..MaxSize, o \in 0..MaxSize}
    \cup {[text |-> ScenarioText, strategy |-> "fixed_size",
           chunk_size |-> DefaultChunkSize, overlap |-> DefaultOverlap,
           sentences_per_chunk |-> DefaultSentences]}
    \cup {[text |-> t, strategy |-> "sentence",
           chunk_size |-> DefaultChunkSize, overlap |-> DefaultOverlap,
           sentences_per_chunk |-> k] :
          t \in SeqsUpTo(ProseAlphabet, MaxProseLen), k \in 0..MaxSentences}
    \cup {[text |-> t, strategy |-> n, chunk_size |-> DefaultChunkSize,
           overlap |-> DefaultOverlap,
           sentences_per_chunk |-> DefaultSentences] :
          t \in SeqsUpTo(ParagraphAlphabet, MaxParaLen),
          n \in {"paragraph", "semantic"}}

InitChunk ==
    /\ store = <<>>
    /\ seq = 1
    /\ pc = "extracted"
    /\ \E c \in ChunkCases :
          /\ text = c.text
          /\ split_strategy = c.strategy
          /\ chunk_size = c.chunk_size
          /\ overlap = c.overlap
          /\ sentences_per_chunk = c.sentences_per_chunk
    /\ IndexIdle
    /\ SearchIdle

NextChunk ==
    \/ ChunkDispatch
    \/ FixedSizeIter

SpecChunk == InitChunk /\ [][NextChunk]_vars

----------------------------------------------------------------------------
(* DatabaseSearch *)

RECURSIVE Dot(_, _)
Dot(a, b) == IF a = <<>> THEN 0 ELSE a[1] * b[1] + Dot(Tail(a), Tail(b))

Sign(x) == IF x > 0 THEN 1 ELSE IF x < 0 THEN -1 ELSE 0

\* sklearn's cosine_similarity on two 1 x n arrays: it raises on arrays of
\* different widths (and on a width of 0); a zero vector is left unscaled
\* and scores 0.  The score c is kept as the fraction Sign(c) * c^2, which
\* orders as c does.
SimilarityRaises(vec1, vec2) ==
    Len(vec1) # Len(vec2) \/ Len(vec1) = 0

\* _calculate_similarity, lines 79-84
calculate_similarity(vec1, vec2) ==
    LET d  == Dot(vec1, vec2)
        nn == Dot(vec1, vec1) * Dot(vec2, vec2)
    IN  IF nn = 0 THEN [num |-> 0, den |-> 1]
        ELSE [num |-> Sign(d) * d * d, den |-> nn]

ScoreLess(x, y) == x.num * y.den < y.num * x.den
ScoreEq(x, y)   == x.num * y.den = y.num * x.den

\* lines 128-137: the tuple appended for a row
Result(row, score) ==
    [chunk |-> [id             |-> row.id,
                chunk_text     |-> row.chunk_text,
                filename       |-> row.filename,
                split_strategy |-> row.split_strategy],
     score |-> score]

\* lines 112-126: rows that reach _calculate_similarity
Scanned(rows) == SelectSeq(rows, LAMBDA r : r.embedding # <<>>)

RECURSIVE InsertDesc(_, _)
InsertDesc(sorted, x) ==
    IF sorted = <<>> THEN <<x>>
    ELSE IF ScoreLess(Head(sorted).score, x.score)
         THEN <<x>> \o sorted
         ELSE <<Head(sorted)>> \o InsertDesc(Tail(sorted), x)

\* line 140: results.sort(key=lambda x: x[1], reverse=True), a stable sort
SortDesc(rs) ==
    LET F[i \in 0..Len(rs)] ==
            IF i = 0 THEN <<>> ELSE InsertDesc(F[i - 1], rs[i])
    IN  F[Len(rs)]

\* search_similar_chunks, lines 101-143: raises, or returns the results
search_similar_chunks(rows, q, k) ==
    LET scanned == Scanned(rows)
    IN  IF \E i \in 1..Len(scanned) : SimilarityRaises(q, scanned[i].embedding)
        THEN [raised |-> TRUE, results |-> <<>>]
        ELSE LET scored == [i \in 1..Len(scanned) |->
                               Result(scanned[i],
                                      calculate_similarity(
                                          q, scanned[i].embedding))]
             IN  [raised  |-> FALSE,
                  results |-> PySlice(SortDesc(scored), 0, k)]

----------------------------------------------------------------------------
(* search_documents *)

QueryVectors == {<<1, 0>>, <<1, 1>>, <<0, 0>>}

\* lines 159-165: a search starts and the query is embedded
EmbedQuery(q, k) ==
    /\ s_pc \in {"idle", "done", "error"}
    /\ query_embedding' = q
    /\ top_k' = k
    /\ results' = <<>>
    /\ s_conn' = "none"
    /\ s_opens' = 0
    /\ s_err' = "none"
    /\ s_pc' = "embedded"
    /\ UNCHANGED <<storeVars, indexVars>>

\* line 165 raising
EmbedQueryFails(k) ==
    /\ s_pc \in {"idle", "done", "error"}
    /\ query_embedding' = <<>>
    /\ top_k' = k
    /\ results' = <<>>
    /\ s_conn' = "none"
    /\ s_opens' = 0
    /\ s_err' = "EmbeddingError"
    /\ s_pc' = "error"
    /\ UNCHANGED <<storeVars, indexVars>>

\* line 169: DatabaseSearch(POSTGRES_URL)
ConnectSearch ==
    /\ s_pc = "embedded"
    /\ s_conn' = "open"
    /\ s_opens' = s_opens + 1
    /\ s_pc' = "connected"
    /\ UNCHANGED <<s_err, query_embedding, top_k, results, storeVars,
                   indexVars>>

\* line 169 raising
ConnectSearchFails ==
    /\ s_pc = "embedded"
    /\ s_err' = "StoreError"
    /\ s_pc' = "error"
    /\ UNCHANGED <<s_conn, s_opens, query_embedding, top_k, results,
                   storeVars, indexVars>>

\* lines 170-171: the search, then close
SearchChunks ==
    /\ s_pc = "connected"
    /\ LET r == search_similar_chunks(store, query_embedding, top_k)
       IN  IF r.raised
           THEN /\ s_err' = "ValueError"
                /\ s_pc' = "error"
                /\ UNCHANGED <<results, s_conn>>
           ELSE /\ results' = r.results
                /\ s_conn' = "closed"
                /\ s_pc' = "done"
                /\ s_err' = s_err
    /\ UNCHANGED <<s_opens, query_embedding, top_k, storeVars, indexVars>>

\* line 170 raising in the SELECT
SearchChunksFails ==
    /\ s_pc = "connected"
    /\ s_err' = "StoreError"
    /\ s_pc' = "error"
    /\ UNCHANGED <<s_conn, s_opens, query_embedding, top_k, results,
                   storeVars, indexVars>>

\* Embeddings a row of document_chunks can hold: the column is REAL[] NOT
\* NULL, of any length
StoredVectors ==
    {<<>>, <<1>>, <<1, 0>>, <<0, 1>>, <<2, 0>>, <<-1, 0>>, <<0, 0>>}

StoredRow(i, e) ==
    [id             |-> i,
     chunk_text     |-> <<"a">>,
     embedding      |-> e,
     filename       |-> [stem |-> "a", ext |-> ".pdf"],
     split_strategy |-> "paragraph"]

SearchStores ==
    {[i \in 1..Len(es) |-> StoredRow(i, es[i])] :
        es \in SeqsUpTo(StoredVectors, MaxRows)}

InitSearch ==
    /\ store \in SearchStores
    /\ seq = Len(store) + 1
    /\ pc = "idle"
    /\ split_strategy = "fixed_size"
    /\ chunk_size = DefaultChunkSize
    /\ overlap = DefaultOverlap
    /\ sentences_per_chunk = DefaultSentences
    /\ text = <<>>
    /\ IndexIdle
    /\ SearchIdle

NextSearch ==
    \/ \E q \in QueryVectors, k \in (0 - MaxTopK)..MaxTopK : EmbedQuery(q, k)
    \/ \E k \in (0 - MaxTopK)..MaxTopK : EmbedQueryFails(k)
    \/ ConnectSearch
    \/ ConnectSearchFails
    \/ SearchChunks
    \/ SearchChunksFails

SpecSearch == InitSearch /\ [][NextSearch]_vars

----------------------------------------------------------------------------
(* Properties of the indexing pipeline (Spec) *)

\* C1: if an embedding call fails during an indexing run, the store holds
\* exactly the rows it held before the run started.
C1_EmbedFailureKeepsStore ==
    (pc = "error" /\ err = "EmbeddingError") => store = store_before

\* C2: when the most recent run completed successfully the store holds
\* exactly that run's chunks: one row per chunk, in chunk order, ids 1..n,
\* with that run's chunk_text, filename and split_strategy.
C2_StoreIsLastRun ==
    pc = "done" =>
        /\ Len(store) = Len(chunks)
        /\ \A i \in 1..Len(store) :
              /\ store[i].id = i
              /\ store[i].chunk_text = chunks[i]
              /\ store[i].filename = [stem |-> file.stem, ext |-> file.ext]
              /\ store[i].split_strategy = split_strategy

\* C2's case: a run completed over a store that held another file's rows
C2_Witness ==
    /\ pc = "done"
    /\ Len(store) >= 2
    /\ store_before # <<>>
    /\ store_before[1].filename # store[1].filename

\* C3: a fixed_size run with overlap >= chunk_size is rejected before
\* chunking is used.
C3_OverlapRejected ==
    (split_strategy = "fixed_size" /\ overlap >= chunk_size)
        => pc \in {"idle", "extracted", "error"}

Unextractable(f) ==
    \/ ~f.readable
    \/ f.ext \notin {".pdf", ".PDF", ".docx", ".DOCX", ".doc", ".DOC"}

\* C8: a run whose extraction fails, or whose strategy name is unknown, ends
\* in that error with no chunks made by another strategy, no embedding call
\* and the store's rows unchanged.
C8_FailFast ==
    /\ Unextractable(file) =>
          /\ pc \in {"idle", "error"}
          /\ pc = "error" => err \in {"UnsupportedFormat", "ExtractionError"}
          /\ chunks = <<>>
          /\ embed_calls = 0
          /\ opens = 0
          /\ store = store_before
    /\ (~Unextractable(file)
        /\ split_strategy \notin {"fixed_size", "sentence", "paragraph"}) =>
          /\ pc \in {"extracted", "error"}
          /\ pc = "error" => err = "InvalidStrategy"
          /\ chunks = <<>>
          /\ embed_calls = 0
          /\ opens = 0
          /\ store = store_before

\* C8's case: a run ended in one of the two errors over a non-empty store
C8_Witness ==
    /\ pc = "error"
    /\ err \in {"UnsupportedFormat", "ExtractionError", "InvalidStrategy"}
    /\ store # <<>>

----------------------------------------------------------------------------
(* Properties of fixed_size_chunks (SpecChunk) *)

FixedDone ==
    /\ pc = "chunked"
    /\ split_strategy = "fixed_size"
    /\ chunk_size > overlap

Scenario ==
    /\ pc = "chunked"
    /\ split_strategy = "fixed_size"
    /\ Len(text) = 2600
    /\ chunk_size = 1000
    /\ overlap = 200

\* C4 as stated: the 2600-character text with chunk_size 1000 and overlap
\* 200 yields 4 chunks, each of at most 1000 characters, the last shorter.
C4_ScenarioFourChunks ==
    Scenario =>
        /\ Len(chunks) = 4
        /\ \A i \in 1..Len(chunks) : Len(chunks[i]) <= 1000
        /\ Len(chunks[4]) < 1000

\* C4 as amended: it yields 3 chunks of exactly 1000 characters each, the
\* slices [0:1000], [800:1800] and [1600:2600].
C4_ScenarioThreeChunks ==
    Scenario =>
        /\ Len(chunks) = 3
        /\ \A i \in 1..3 :
              chunks[i] = SubSeq(text, 800 * (i - 1) + 1, 800 * (i - 1) + 1000)

C4_Witness == Scenario

RECURSIVE Reassemble(_, _)
\* The first chunk whole, every later chunk without its first ov characters
Reassemble(cs, ov) ==
    IF cs = <<>> THEN <<>>
    ELSE IF Len(cs) = 1 THEN cs[1]
    ELSE Reassemble(SubSeq(cs, 1, Len(cs) - 1), ov)
         \o SubSeq(cs[Len(cs)], ov + 1, Len(cs[Len(cs)]))

\* C9: for chunk_size > overlap >= 0, the first chunk followed by every
\* later chunk without its first overlap characters is the text, and every
\* later chunk is longer than overlap.
C9_Reassembles ==
    FixedDone =>
        /\ \A i \in 2..Len(chunks) : Len(chunks[i]) > overlap
        /\ Reassemble(chunks, overlap) = text

\* C9's case: at least three chunks with a real overlap
C9_Witness ==
    /\ FixedDone
    /\ overlap >= 1
    /\ Len(chunks) >= 3

\* C10: for chunk_size > overlap >= 0, the result is non-empty iff the text
\* is, every chunk has at most chunk_size characters, and the first chunk
\* has exactly chunk_size characters when the text has that many.
C10_ChunkLengths ==
    FixedDone =>
        /\ (chunks # <<>>) <=> (text # <<>>)
        /\ \A i \in 1..Len(chunks) : Len(chunks[i]) <= chunk_size
        /\ Len(text) >= chunk_size => Len(chunks[1]) = chunk_size

\* C10's case: a text longer than chunk_size, cut into several chunks
C10_Witness ==
    /\ FixedDone
    /\ Len(text) > chunk_size
    /\ Len(chunks) >= 2
    /\ Len(chunks[Len(chunks)]) < chunk_size

----------------------------------------------------------------------------
(* Properties of the search (SpecSearch) *)

\* The search step returned or raised in the ranking
SearchEnded ==
    \/ s_pc = "done"
    \/ s_pc = "error" /\ s_err = "ValueError"

WellFormed(r) ==
    r.embedding # <<>> /\ Len(r.embedding) = Len(query_embedding)

\* The rankable candidates, in the order read
Candidates == SelectSeq(store, WellFormed)

CandidateScore(i) ==
    calculate_similarity(query_embedding, Candidates[i].embedding)

\* Candidate i is ranked before candidate j
RankedBefore(i, j) ==
    \/ ScoreLess(CandidateScore(j), CandidateScore(i))
    \/ ScoreEq(CandidateScore(i), CandidateScore(j)) /\ i < j

RankOf(i) ==
    1 + Cardinality({j \in 1..Len(Candidates) : RankedBefore(j, i)})

\* C5: for top_k >= 1 the search returns the first min(top_k, n) of the n
\* rankable candidates by descending score, equal scores in the order read.
C5_RankedTopK ==
    (SearchEnded /\ top_k >= 1) =>
        /\ s_pc = "done"
        /\ Len(results) = Min(top_k, Len(Candidates))
        /\ \A p \in 1..Len(results) :
              \E i \in 1..Len(Candidates) :
                  /\ RankOf(i) = p
                  /\ results[p] = Result(Candidates[i], CandidateScore(i))

\* C6: a stored row whose embedding is empty or of another length than the
\* query is left out: the search does not fail, the row is not in the
\* results, and the results are those of the store without such rows.
C6_MalformedExcluded ==
    SearchEnded =>
        /\ s_pc = "done"
        /\ \A p \in 1..Len(results) :
              \E i \in 1..Len(Candidates) :
                  results[p].chunk.id = Candidates[i].id
        /\ results =
              search_similar_chunks(Candidates, query_embedding, top_k).results

\* C7: for top_k <= 0 the search returns the empty sequence.
C7_NonPositiveTopKEmpty ==
    (s_pc = "done" /\ top_k <= 0) => results = <<>>

----------------------------------------------------------------------------
(* Properties of sentence_based_chunks (SpecChunk) *)

\* Positions of s that hold no whitespace
Inked(s) == {i \in 1..Len(s) : s[i] \notin {" ", "\n", "\t"}}

\* s without its leading and trailing whitespace
Trimmed(s) ==
    IF Inked(s) = {} THEN <<>>
    ELSE SubSeq(s, CHOOSE i \in Inked(s) : \A j \in Inked(s) : i <= j,
                   CHOOSE i \in Inked(s) : \A j \in Inked(s) : i >= j)

\* The pieces of t between the positions in cuts, trimmed, the empty ones
\* dropped; cuts holds 0 and Len(t) + 1
TrimmedPieces(t, cuts) ==
    LET Nth(n) == CHOOSE c \in cuts : Cardinality({d \in cuts : d < c}) = n - 1
        pieces == [n \in 1..(Cardinality(cuts) - 1) |->
                      Trimmed(SubSeq(t, Nth(n) + 1, Nth(n + 1) - 1))]
    IN  SelectSeq(pieces, LAMBDA x : x # <<>>)

\* s_1..s_n: the non-empty trimmed fragments of t between '.', '!' and '?'
Sentences(t) ==
    TrimmedPieces(t, {0, Len(t) + 1}
                     \cup {i \in 1..Len(t) : t[i] \in {".", "!", "?"}})

RECURSIVE Glued(_)
\* The sentences of one chunk joined by ". "
Glued(ss) ==
    IF Len(ss) = 1 THEN ss[1] ELSE ss[1] \o <<".", " ">> \o Glued(Tail(ss))

SentenceDone ==
    /\ pc = "chunked"
    /\ split_strategy = "sentence"
    /\ sentences_per_chunk >= 1

\* C11: for k >= 1 and the n sentences s_1..s_n of the text, the result is
\* ceil(n/k) chunks, chunk j being s_(jk+1)..s_min((j+1)k, n) joined by ". "
\* with "." appended; empty or whitespace-only text gives no chunk.
C11_SentenceBatches ==
    SentenceDone =>
        LET ss == Sentences(text)
            n  == Len(ss)
            k  == sentences_per_chunk
        IN  /\ Len(chunks) = (n + k - 1) \div k
            /\ \A j \in 0..(Len(chunks) - 1) :
                  chunks[j + 1] =
                      Glued(SubSeq(ss, j * k + 1, Min((j + 1) * k, n)))
                      \o <<".">>
            /\ Inked(text) = {} => chunks = <<>>

\* C11's case: three sentences, one ended by '!', in batches of two
C11_Witness ==
    /\ SentenceDone
    /\ sentences_per_chunk = 2
    /\ Len(chunks) = 2
    /\ \E i \in 1..Len(text) : text[i] = "!"

----------------------------------------------------------------------------
(* Properties of paragraph_based_chunks (SpecChunk) *)

\* Position i of t is a newline next to another newline
InBlankLine(t, i) ==
    /\ t[i] = "\n"
    /\ \/ i > 1 /\ t[i - 1] = "\n"
       \/ i < Len(t) /\ t[i + 1] = "\n"

\* The trimmed non-empty blocks of t between its double newlines
Blocks(t) ==
    TrimmedPieces(t, {0, Len(t) + 1}
                     \cup {i \in 1..Len(t) : InBlankLine(t, i)})

HasDoubleNewline(s) ==
    \E i \in 1..(Len(s) - 1) : s[i] = "\n" /\ s[i + 1] = "\n"

ParagraphDone ==
    /\ pc = "chunked"
    /\ split_strategy = "paragraph"

\* No chunk is empty, starts or ends with whitespace, or contains a double
\* newline
CleanChunks ==
    \A j \in 1..Len(chunks) :
        /\ chunks[j] # <<>>
        /\ chunks[j][1] \notin {" ", "\n", "\t"}
        /\ chunks[j][Len(chunks[j])] \notin {" ", "\n", "\t"}
        /\ ~HasDoubleNewline(chunks[j])

\* C12 as stated: the chunks are the trimmed non-empty blocks in order, all
\* clean; empty text gives none; a text with no double newline gives
\* exactly one chunk.
C12_OneChunkWithoutSeparator ==
    ParagraphDone =>
        /\ chunks = Blocks(text)
        /\ CleanChunks
        /\ text = <<>> => chunks = <<>>
        /\ (text # <<>> /\ ~HasDoubleNewline(text)) => Len(chunks) = 1

\* C12 as amended: a text with no double newline gives exactly one chunk,
\* the trimmed text, when it holds a non-whitespace character, and no chunk
\* when it is empty or whitespace only.
C12_ParagraphBlocks ==
    ParagraphDone =>
        /\ chunks = Blocks(text)
        /\ CleanChunks
        /\ text = <<>> => chunks = <<>>
        /\ ~HasDoubleNewline(text) =>
              IF Inked(text) = {} THEN chunks = <<>>
              ELSE chunks = <<Trimmed(text)>>

\* C12's case: two paragraphs, with whitespace to trim
C12_Witness ==
    /\ ParagraphDone
    /\ Len(chunks) = 2
    /\ \E i \in 1..Len(text) : text[i] = " "

----------------------------------------------------------------------------
(* Properties of the store connection (Spec) *)

\* C13: in every pipeline run the store connection is opened at most once,
\* and if it was opened it is closed when the run has ended, with or
\* without an error.
C13_ConnectionClosed ==
    /\ opens <= 1
    /\ pc \in {"done", "error"} => conn # "open"
    /\ s_opens <= 1
    /\ s_pc \in {"done", "error"} => s_conn # "open"

====
